---- MODULE Spec2Model ----
(***************************************************************************)
(* The translation pipeline of scripts/: get-content.py (Field Extractor), *)
(* translate.py and gpt-translate.py (Translation Checkpoint Loop) and     *)
(* update-content.py (Payload Reinjection).                                *)
(*                                                                         *)
(* Strings are sequences of lexical tokens: a key "root.a.title" is        *)
(* <<"root", ".", "a", ".", "title">>, so that split("."), endswith(),     *)
(* strip() and the bracket parsing of the scripts are computed on the      *)
(* text and not assumed.                                                   *)
(***************************************************************************)
EXTENDS Integers, Sequences, FiniteSets, TLC

VARIABLES
    \* ---- Translation Checkpoint Loop (translate.py / gpt-translate.py)
    script,              \* which of the two scripts is run
    base_file,           \* hubspot_translatable_content.json: [state, content]
    translated_file,     \* hubspot_translated_thai.json: [state, content]
    backup_copy,         \* the latest timestamped backup written by backup_file
    pc,                  \* position of the process
    translated_content,  \* in-memory translated mapping (ordered)
    start_index,         \* resume index of the run
    i,                   \* loop index of the run
    translated_count,    \* "new entries added" counter of the run
    run,                 \* number of runs started so far
    loaded_len,          \* history: size of the mapping the run loaded
    calls,               \* history: source indices sent to the external call
    failed,              \* history: source indices whose call failed this run
    ended,               \* history: how the latest run ended
    prev,                \* history: summary of the run before the latest one
    \* ---- get-content.py and update-content.py
    cms_page,            \* the page document the CMS serves to get-content.py
    suffixed_file,       \* hubspot_translated_th.json: [state, content]
    env,                 \* TRANSLATED_JSON and TARGET_LANG_SUFFIX of update-content.py
    stage,               \* which files the earlier scripts have produced
    upc,                 \* position of update-content.py
    data,                \* the mapping update-content.py loaded from json_path
    translations,        \* the translations collected from data
    fetched,             \* history: the page as update-content.py fetched it
    page_data,           \* the page document held by update-content.py
    tr_index,            \* number of translations applied so far
    updated,             \* "Total fields updated" counter
    not_found,           \* paths update_nested_field could not locate
    \* ---- the CMS calls of get-content.py, update-content.py and
    \* ---- holiday-page-scripts/update-content.py
    environ,             \* which of the environment variables are set
    sent,                \* history: the requests sent to the CMS: [by, method, body]
    page_backup,         \* backups/hubspot_page_backup_<id>_<time>.json
    patch_status,        \* status the CMS answered to the PATCH of update-content.py
    printed,             \* the payload update-content.py printed for debugging
    hpc,                 \* what main() of the holiday update-content.py came to
    holiday_answer,      \* history: what the PATCH of the holiday script came to
    updated_file,        \* updated_<state>_page_content.json: [state, content]
    page_content_file,   \* page_content.json of the holiday scripts: [state, content]
    \* ---- holiday-page-scripts/automate.py
    data_dir,            \* the names of the files of data/
    apc,                 \* position of main() of automate.py
    state_files,         \* the list get_state_files returned
    clone_idx,           \* number of state files the loop of main() is done with
    clone_posts,         \* history: the state names a clone was requested for
    successful_states,   \* list of main()
    failed_states        \* list of main()

loopVars == <<script, base_file, translated_file, backup_copy, pc,
              translated_content, start_index, i, translated_count, run,
              loaded_len, calls, failed, ended, prev>>

pushVars == <<environ, sent, page_backup, patch_status, printed>>

cloneVars == <<data_dir, apc, state_files, clone_idx, clone_posts,
               successful_states, failed_states>>

holidayVars == <<hpc, holiday_answer, updated_file, page_content_file, cloneVars>>

pageVars == <<cms_page, suffixed_file, env, stage, upc, data, translations,
              fetched, page_data, tr_index, updated, not_found, pushVars,
              holidayVars>>

vars == <<loopVars, pageVars>>

----------------------------------------------------------------------------
(* Bounds of the model *)

MaxLen == 3      \* longest source mapping
MaxRuns == 3     \* runs of the loop in one behaviour
MaxWraps == 3    \* containers around the innermost mapping of a page document

----------------------------------------------------------------------------
(* Text helpers *)

Last(s) == s[Len(s)]

EndsWith(s, suf) ==
    /\ Len(s) >= Len(suf)
    /\ SubSeq(s, Len(s) - Len(suf) + 1, Len(s)) = suf

StartsWith(s, pre) ==
    /\ Len(s) >= Len(pre)
    /\ SubSeq(s, 1, Len(pre)) = pre

Whitespace == {" ", "\n"}

RECURSIVE LStrip(_)
LStrip(s) == IF s # <<>> /\ s[1] \in Whitespace THEN LStrip(Tail(s)) ELSE s

RECURSIVE RStrip(_)
RStrip(s) ==
    IF s # <<>> /\ Last(s) \in Whitespace THEN RStrip(SubSeq(s, 1, Len(s) - 1)) ELSE s

\* str.strip()
Strip(s) == RStrip(LStrip(s))

\* str.lower(), token by token
LowerTok(t) ==
    CASE t = "Lorem" -> "lorem"
      [] t = "LOREM" -> "lorem"
      [] t = "Ipsum" -> "ipsum"
      [] t = "Title" -> "title"
      [] t = "Label" -> "label"
      [] t = "Style_Text" -> "style_text"
      [] t = "layoutSections" -> "layoutsections"
      [] t = "publishDate" -> "publishdate"
      [] OTHER -> t

Lower(s) == [n \in 1..Len(s) |-> LowerTok(s[n])]

\* tokens that are runs of ASCII digits (regex \d+)
DigitTokens == {"0", "1", "2", "10"}

\* tokens whose last character is "0"
EndsInZero(t) == t \in {"0", "10"}

\* tokens matched by [a-zA-Z]*
AlphaTokens == {"html", "json", "HELLO", "Hello"}

----------------------------------------------------------------------------
(* translate.py / gpt-translate.py: helpers *)

\* re.search(r"\.rows\[\d+\]\.0\.rows\[0\]\.0\.label$", key)
is_exact_dynamic_row_pattern(key) ==
    /\ Len(key) >= 16
    /\ EndsWith(key, <<"]", ".", "0", ".", "rows", "[", "0", "]", ".", "0", ".", "label">>)
    /\ key[Len(key) - 12] \in DigitTokens
    /\ SubSeq(key, Len(key) - 15, Len(key) - 13) = <<".", "rows", "[">>

\* value.strip().lower().startswith("lorem ipsum")
is_placeholder_text(value) ==
    StartsWith(Lower(Strip(value)), <<"lorem", " ", "ipsum">>)

\* key.endswith(".content_type")
is_content_type_key(key) == EndsWith(key, <<".", "content_type">>)

\* key.endswith("dnd_area.label")
is_dnd_area_label_key(key) == EndsWith(key, <<"dnd_area", ".", "label">>)

\* key.endswith("0.rows[0].0.label")
is_rows_label_key(key) ==
    /\ Len(key) >= 10
    /\ EndsWith(key, <<".", "rows", "[", "0", "]", ".", "0", ".", "label">>)
    /\ EndsInZero(key[Len(key) - 9])

\* clean_gemini_output / clean_gpt_output: strip a code-fence wrapper
\* (the token "FENCE" stands for three backquotes)
DropFenceOpen(s) ==
    IF s # <<>> /\ s[1] = "FENCE"
    THEN LET a == Tail(s)
             b == IF a # <<>> /\ a[1] \in AlphaTokens THEN Tail(a) ELSE a
         IN  IF b # <<>> /\ b[1] = "\n" THEN Tail(b) ELSE b
    ELSE s

DropFenceClose(s) ==
    IF s # <<>> /\ Last(s) = "FENCE" THEN SubSeq(s, 1, Len(s) - 1) ELSE s

clean_output(text) ==
    IF text = <<>> THEN text
    ELSE Strip(DropFenceClose(Strip(DropFenceOpen(Strip(text)))))

----------------------------------------------------------------------------
(* Ordered mappings (Python dict): sequences of [key, value] with distinct keys *)

Keys(m) == [n \in 1..Len(m) |-> m[n].key]

KeySet(m) == {m[n].key : n \in 1..Len(m)}

HasKey(m, k) == k \in KeySet(m)

\* list.index(k), k present
IndexOf(ks, k) == CHOOSE n \in 1..Len(ks) : ks[n] = k /\ \A j \in 1..(n - 1) : ks[j] # k

Get(m, k) == m[IndexOf(Keys(m), k)].value

\* an assignment that stores the key with the language suffix
Put_Suffixed(m, k, v) == Append(m, [key |-> k \o <<"_th">>, value |-> v])

\* m[k] = v
Put(m, k, v) ==
    IF HasKey(m, k)
    THEN [n \in 1..Len(m) |-> IF m[n].key = k THEN [key |-> k, value |-> v] ELSE m[n]]
    ELSE Append(m, [key |-> k, value |-> v])

----------------------------------------------------------------------------
(* Nested documents (JSON): a node is [t, v] with t one of "dict" (v: ordered *)
(* entries [key, value]), "list" (v: items), "str" (v: the text) and "num"   *)
(* (numbers, booleans, null; v is empty).                                    *)

Str(text) == [t |-> "str", v |-> text]
Num == [t |-> "num", v |-> <<>>]
Dict(entries) == [t |-> "dict", v |-> entries]
List(items) == [t |-> "list", v |-> items]

IsContainer(node) == node.t \in {"dict", "list"}

\* f"{i}" of a list position
IntTok(n) ==
    CASE n = 0 -> "0" [] n = 1 -> "1" [] n = 2 -> "2" [] n = 3 -> "3"
      [] n = 10 -> "10" [] n = -1 -> "-1" [] OTHER -> "many"

\* int(text): the number, or ValueError (ok = FALSE)
ParseInt(text) ==
    LET t == Strip(text)
    IN  IF Len(t) = 1 /\ t[1] \in DigitTokens \cup {"3", "-1"}
        THEN [ok |-> TRUE,
              n |-> CASE t[1] = "0" -> 0 [] t[1] = "1" -> 1 [] t[1] = "2" -> 2
                      [] t[1] = "3" -> 3 [] t[1] = "10" -> 10 [] OTHER -> -1]
        ELSE [ok |-> FALSE, n |-> 0]

\* number of characters of a text
CharLen(tok) ==
    CASE tok \in {" ", "\n", ".", "[", "]", "0", "1", "2", "3", "a", "b", "x"} -> 1
      [] tok \in {"Hi", "10", "-1"} -> 2
      [] OTHER -> 5

RECURSIVE TextLen(_)
TextLen(text) == IF text = <<>> THEN 0 ELSE CharLen(text[1]) + TextLen(Tail(text))

Has(text, tok) == \E n \in 1..Len(text) : text[n] = tok

\* text.find(tok) as a 1-based position, 0 when absent
Find(text, tok) ==
    IF Has(text, tok)
    THEN CHOOSE n \in 1..Len(text) : text[n] = tok /\ \A j \in 1..(n - 1) : text[j] # tok
    ELSE 0

\* text.split(sep)
RECURSIVE Split(_, _)
Split(text, sep) ==
    IF ~Has(text, sep) THEN <<text>>
    ELSE <<SubSeq(text, 1, Find(text, sep) - 1)>>
             \o Split(SubSeq(text, Find(text, sep) + 1, Len(text)), sep)

----------------------------------------------------------------------------
(* get-content.py: extract_text_fields *)

InclusionKeywords ==
    {"text", "heading", "title", "label", "content", "value", "placeholder",
     "caption", "alt", "description"}

ExclusionKeywords == {"script", "style", "css", "path"}

\* the keywords that are proper substrings of a token of the vocabulary
SubstringPairs ==
    { <<"style_text", "text">>, <<"style_text", "style">>,
      <<"content_type", "content">>, <<"description", "script">> }

\* kw in key.lower()
KeywordIn(kw, key) ==
    \E n \in 1..Len(key) :
        LowerTok(key[n]) = kw \/ <<LowerTok(key[n]), kw>> \in SubstringPairs

MatchesInclusion(key) == \E kw \in InclusionKeywords : KeywordIn(kw, key)

MatchesExclusion(key) == \E bad \in ExclusionKeywords : KeywordIn(bad, key)

\* an extractor without its exclusion list
IsCollected_NoExclusion(key, value) ==
    /\ value.t = "str"
    /\ MatchesInclusion(key)
    /\ Strip(value.v) # <<>>

\* get-content.py 38-59: the leaf is collected
IsCollected(key, value) ==
    /\ value.t = "str"
    /\ MatchesInclusion(key)
    /\ ~MatchesExclusion(key)
    /\ Strip(value.v) # <<>>

RECURSIVE extract_text_fields(_, _, _)
RECURSIVE ExtractEntries(_, _, _, _)
RECURSIVE ExtractItems(_, _, _, _)

\* the for loop over obj.items(), from entry n on
ExtractEntries(entries, n, path, result) ==
    IF n > Len(entries) THEN result
    ELSE LET key == entries[n].key
             value == entries[n].value
             sub == path \o <<".">> \o key
             r == IF IsContainer(value) THEN extract_text_fields(value, sub, result)
                  ELSE IF IsCollected(key, value) THEN Put(result, sub, value.v)
                  ELSE result
         IN  ExtractEntries(entries, n + 1, path, r)

\* the for loop over enumerate(obj), from item n on (n is 1-based, i = n - 1)
ExtractItems(items, n, path, result) ==
    IF n > Len(items) THEN result
    ELSE ExtractItems(items, n + 1, path,
             extract_text_fields(items[n], path \o <<"[", IntTok(n - 1), "]">>, result))

extract_text_fields(obj, path, result) ==
    IF obj.t = "dict" THEN ExtractEntries(obj.v, 1, path, result)
    ELSE IF obj.t = "list" THEN ExtractItems(obj.v, 1, path, result)
    ELSE result

\* translatable_fields = extract_text_fields(page_data)
Translatable(doc) == extract_text_fields(doc, <<"root">>, <<>>)

----------------------------------------------------------------------------
(* update-content.py: update_nested_field *)

Done(node) == [status |-> "ok", node |-> node]
Raise(exc, node) == [status |-> exc, node |-> node]

\* ref[field], field a string
LookupField(ref, field) ==
    IF ref.t = "dict"
    THEN IF HasKey(ref.v, field) THEN Done(Get(ref.v, field)) ELSE Raise("KeyError", ref)
    ELSE Raise("TypeError", ref)

\* the key an integer has in a mapping (never equal to a string key)
IntKey(idx) == <<"int", IntTok(idx)>>

\* seq[idx], idx an integer
IndexInto(seq, idx) ==
    IF seq.t = "list"
    THEN IF idx >= 0 /\ idx < Len(seq.v) THEN Done(seq.v[idx + 1])
         ELSE IF idx < 0 /\ -idx <= Len(seq.v) THEN Done(seq.v[Len(seq.v) + idx + 1])
         ELSE Raise("IndexError", seq)
    ELSE IF seq.t = "dict"
    THEN IF HasKey(seq.v, IntKey(idx)) THEN Done(Get(seq.v, IntKey(idx)))
         ELSE Raise("KeyError", seq)
    ELSE IF seq.t = "str"
    THEN IF idx < TextLen(seq.v) /\ -idx <= TextLen(seq.v) THEN Done(Str(<<"x">>))
         ELSE Raise("IndexError", seq)
    ELSE Raise("TypeError", seq)

\* seq[idx] = node
AssignIndex(seq, idx, node) ==
    IF seq.t = "list"
    THEN IF idx >= 0 /\ idx < Len(seq.v)
         THEN Done(List([seq.v EXCEPT ![idx + 1] = node]))
         ELSE IF idx < 0 /\ -idx <= Len(seq.v)
         THEN Done(List([seq.v EXCEPT ![Len(seq.v) + idx + 1] = node]))
         ELSE Raise("IndexError", seq)
    ELSE IF seq.t = "dict" THEN Done(Dict(Put(seq.v, IntKey(idx), node)))
    ELSE Raise("TypeError", seq)

\* an assignment that leaves the mapping with the assigned field only
AssignField_DropOthers(ref, field, node) ==
    IF ref.t = "dict" THEN [status |-> "ok", node |-> Dict(<<[key |-> field, value |-> node]>>)]
    ELSE [status |-> "TypeError", node |-> ref]

\* ref[field] = node
AssignField(ref, field, node) ==
    IF ref.t = "dict" THEN Done(Dict(Put(ref.v, field, node)))
    ELSE Raise("TypeError", ref)

\* "[" in p and "]" in p
IsIndexed(p) == Has(p, "[") /\ Has(p, "]")

\* p.split("[")[0]
FieldOf(p) == Split(p, "[")[1]

\* int(p[p.find("[") + 1 : p.find("]")])
IndexOfSegment(p) == ParseInt(SubSeq(p, Find(p, "[") + 1, Find(p, "]") - 1))

RECURSIVE Walk(_, _, _, _)
\* update-content.py 60-75 for the parts still to resolve; write = FALSE reads
\* the addressed position instead of assigning it.  A failed walk leaves ref.
Walk(ref, parts, new_value, write) ==
    LET p == parts[1]
        last == Len(parts) = 1
    IN  IF IsIndexed(p)
        THEN IF ~IndexOfSegment(p).ok THEN Raise("ValueError", ref)
             ELSE LET idx == IndexOfSegment(p).n
                      a == LookupField(ref, FieldOf(p))
                  IN  IF a.status # "ok" THEN Raise(a.status, ref)
                      ELSE IF last /\ write
                      THEN LET w == AssignIndex(a.node, idx, new_value)
                           IN  IF w.status # "ok" THEN Raise(w.status, ref)
                               ELSE AssignField(ref, FieldOf(p), w.node)
                      ELSE LET b == IndexInto(a.node, idx)
                           IN  IF b.status # "ok" THEN Raise(b.status, ref)
                               ELSE IF last THEN b
                               ELSE LET r == Walk(b.node, Tail(parts), new_value, write)
                                    IN  IF r.status # "ok" \/ ~write
                                        THEN IF write THEN Raise(r.status, ref) ELSE r
                                        ELSE AssignField(ref, FieldOf(p),
                                                 AssignIndex(a.node, idx, r.node).node)
        ELSE IF last /\ write THEN
                 LET w == AssignField(ref, p, new_value)
                 IN  IF w.status # "ok" THEN Raise(w.status, ref) ELSE w
        ELSE LET a == LookupField(ref, p)
             IN  IF a.status # "ok" THEN Raise(a.status, ref)
                 ELSE IF last THEN a
                 ELSE LET r == Walk(a.node, Tail(parts), new_value, write)
                      IN  IF r.status # "ok" \/ ~write
                          THEN IF write THEN Raise(r.status, ref) ELSE r
                          ELSE AssignField(ref, p, r.node)

\* update_nested_field(data_obj, key_path, new_value): result is TRUE/FALSE,
\* or the ValueError that no except clause catches; doc is data_obj afterwards
update_nested_field(data_obj, key_path, new_value) ==
    LET r == Walk(data_obj, Split(key_path, "."), new_value, TRUE)
    IN  [result |-> IF r.status = "ok" THEN "True"
                    ELSE IF r.status = "ValueError" THEN "ValueError" ELSE "False",
         doc |-> r.node]

\* the value at the position update_nested_field would assign
read_nested_field(data_obj, key_path) ==
    Walk(data_obj, Split(key_path, "."), Num, FALSE)

\* key[5:] if key.startswith("root.") else key
clean_path(key) ==
    IF StartsWith(key, <<"root", ".">>) THEN SubSeq(key, 3, Len(key)) ELSE key

----------------------------------------------------------------------------
(* The requests to the CMS and the bodies sent *)

\* os.getenv(name) is truthy: the variable is set to a non-empty value
Environs ==
    [HUBSPOT_API_KEY : BOOLEAN, HUBSPOT_PRIVATE_APP_TOKEN : BOOLEAN, PAGE_ID : BOOLEAN]

AllSet ==
    [HUBSPOT_API_KEY |-> TRUE, HUBSPOT_PRIVATE_APP_TOKEN |-> TRUE, PAGE_ID |-> TRUE]

\* get-content.py 8: HUBSPOT_API_KEY = os.getenv("HUBSPOT_API_KEY")
GetContentKey(e) == e.HUBSPOT_API_KEY

\* update-content.py 9: os.getenv("HUBSPOT_API_KEY") or os.getenv("HUBSPOT_PRIVATE_APP_TOKEN")
UpdateContentKey(e) == e.HUBSPOT_API_KEY \/ e.HUBSPOT_PRIVATE_APP_TOKEN

\* what the CMS answers to a GET: "Bearer None" is no credential (401) and
\* site-pages/None is no page (404); a known page can still fail to be served
GetStatuses(has_key, has_id) ==
    IF ~has_key THEN {401} ELSE IF ~has_id THEN {404} ELSE {200, 404}

\* what the CMS answers to a PATCH
PatchStatuses == {200, 204, 400}

Request(by, method, body) == [by |-> by, method |-> method, body |-> body]

\* json.loads(json.dumps(node)): a deep copy in which integer keys of a mapping
\* have become strings
RECURSIVE json_copy(_)
RECURSIVE CopyEntries(_, _, _)
CopyEntries(entries, n, acc) ==
    IF n > Len(entries) THEN acc
    ELSE LET key == entries[n].key
             skey == IF Len(key) = 2 /\ key[1] = "int" THEN <<key[2]>> ELSE key
         IN  CopyEntries(entries, n + 1, Put(acc, skey, json_copy(entries[n].value)))

json_copy(node) ==
    IF node.t = "dict" THEN Dict(CopyEntries(node.v, 1, <<>>))
    ELSE IF node.t = "list" THEN List([n \in 1..Len(node.v) |-> json_copy(node.v[n])])
    ELSE node

\* update-content.py 107-111
readonly_fields ==
    { <<"id">>, <<"createdAt">>, <<"updatedAt">>, <<"archived">>, <<"archivedAt">>,
      <<"authorName">>, <<"categoryId">>, <<"contentTypeCategory">>, <<"domain">>,
      <<"state">>, <<"currentState">>, <<"slug">>, <<"createdById">>,
      <<"updatedById">> }

\* the entries of a mapping without those of the given fields, in their order
RECURSIVE WithoutFields(_, _)
WithoutFields(entries, fields) ==
    IF entries = <<>> THEN <<>>
    ELSE (IF entries[1].key \in fields THEN <<>> ELSE <<entries[1]>>)
             \o WithoutFields(Tail(entries), fields)

\* a payload that keeps the slug of the page
clean_hubspot_payload_KeepSlug(doc) ==
    IF doc.t = "dict"
    THEN Dict(WithoutFields(doc.v, readonly_fields \ {<<"slug">>}))
    ELSE doc

\* update-content.py 102-115: del data[field] for every read-only field in data
\* (a sequence of the model holds no field name, it is returned as it is)
clean_hubspot_payload(doc) ==
    IF doc.t = "dict" THEN Dict(WithoutFields(doc.v, readonly_fields)) ELSE doc

\* holiday-page-scripts/update-content.py 46-55
updateable_fields ==
    << <<"layoutSections">>, <<"name">>, <<"slug">>, <<"pageTitle">>,
       <<"metaDescription">>, <<"pageExcerpt">>, <<"category">>, <<"subcategory">> >>

Reverse(s) == [n \in 1..Len(s) |-> s[Len(s) - n + 1]]

\* the orders in which the set updateable_fields is iterated (unspecified)
IterationOrders == {updateable_fields, Reverse(updateable_fields)}

RECURSIVE PayloadFrom(_, _, _)
PayloadFrom(page, fields, payload) ==
    IF fields = <<>> THEN payload
    ELSE PayloadFrom(page, Tail(fields),
             IF page.t = "dict" /\ HasKey(page.v, fields[1])
             THEN Put(payload, fields[1], Get(page.v, fields[1]))
             ELSE payload)

\* holiday-page-scripts/update-content.py 40-68
prepare_update_payload(page, order) ==
    LET payload == PayloadFrom(page, order, <<>>)
    IN  Dict(IF page.t = "dict" /\ HasKey(page.v, <<"layoutSections">>)
             THEN Put(payload, <<"layoutSections">>, Get(page.v, <<"layoutSections">>))
             ELSE payload)

----------------------------------------------------------------------------
(* The source mappings the model runs the loop on.  Keys are paths as      *)
(* extract_text_fields writes them.                                        *)

kTitle == <<"root", ".", "a", ".", "title">>
kText == <<"root", ".", "a", ".", "text">>
kContentType == <<"root", ".", "a", ".", "content_type">>
kContentTypeB == <<"root", ".", "b", ".", "content_type">>
kDndLabel == <<"root", ".", "dnd_area", ".", "label">>
kRowsLabel ==
    <<"root", ".", "a", ".", "0", ".", "rows", "[", "0", "]", ".", "0", ".", "label">>
kDynLabel ==
    <<"root", ".", "rows", "[", "1", "]", ".", "0", ".",
      "rows", "[", "0", "]", ".", "0", ".", "label">>

vHello == <<"Hello">>
vLorem == <<" ", "Lorem", " ", "ipsum", " ", "dolor">>
vRich == <<"text/html">>

SourceEntries ==
    { [key |-> kTitle, value |-> vHello],
      [key |-> kText, value |-> vLorem],
      [key |-> kContentType, value |-> vRich],
      [key |-> kContentTypeB, value |-> vLorem],
      [key |-> kDndLabel, value |-> vHello],
      [key |-> kRowsLabel, value |-> vHello],
      [key |-> kDynLabel, value |-> vHello] }

DistinctKeys(m) == \A a, b \in 1..Len(m) : a # b => m[a].key # m[b].key

Sources ==
    UNION { { m \in [1..n -> SourceEntries] : DistinctKeys(m) } : n \in 0..MaxLen }

\* what the external translation call can answer
ResponseTexts ==
    { <<>>, <<" ">>, <<"HELLO">>, <<" ", "HELLO", "\n">>,
      <<"FENCE", "html", "\n", "HELLO", "\n", "FENCE">>, <<"FENCE", "FENCE">> }

Responses ==
    { [kind |-> "raise", text |-> <<>>], [kind |-> "none", text |-> <<>>] }
        \cup { [kind |-> "text", text |-> t] : t \in ResponseTexts }

----------------------------------------------------------------------------
(* translate.py / gpt-translate.py: module body *)

Scripts == {"translate", "gpt"}

AbsentFile == [state |-> "absent", content |-> <<>>]
TornFile == [state |-> "torn", content |-> <<>>]
OkFile(m) == [state |-> "ok", content |-> m]

\* translate.py 79-88: json.load, {} when the file is absent or does not parse
LoadTranslated(file) == IF file.state = "ok" THEN file.content ELSE <<>>

\* translate.py 96: translated_keys and base_keys[-1] in translated_keys
\* (base_keys[-1] of an empty list raises IndexError)
CompareProgress(base_keys, translated_keys) ==
    IF translated_keys = <<>> THEN "go"
    ELSE IF base_keys = <<>> THEN "IndexError"
    ELSE IF \E n \in 1..Len(translated_keys) : translated_keys[n] = Last(base_keys)
         THEN "already" ELSE "go"

\* a resume that starts at the last stored key instead of after it
ResumeIndex_AtLastKey(base_keys, translated_keys) ==
    IF translated_keys # <<>>
       /\ \E n \in 1..Len(base_keys) : base_keys[n] = Last(translated_keys)
    THEN IndexOf(base_keys, Last(translated_keys)) - 1
    ELSE 0

\* translate.py 111-116: 0-based index the loop starts at
ResumeIndex(base_keys, translated_keys) ==
    IF translated_keys # <<>>
       /\ \E n \in 1..Len(base_keys) : base_keys[n] = Last(translated_keys)
    THEN (IndexOf(base_keys, Last(translated_keys)) - 1) + 1
    ELSE 0

\* translate.py 122-142, gpt-translate.py 130-167: what the loop does with an
\* entry, the checks in the order of each script
ClassifyTranslate(key, value, translated) ==
    IF HasKey(translated, key) THEN "present"
    ELSE IF is_exact_dynamic_row_pattern(key) THEN "skip"
    ELSE IF is_placeholder_text(value) THEN "skip"
    ELSE IF is_content_type_key(key) THEN "copy"
    ELSE "translate"

ClassifyGpt(key, value, translated) ==
    IF HasKey(translated, key) THEN "present"
    ELSE IF is_placeholder_text(value) THEN "skip"
    ELSE IF is_dnd_area_label_key(key) THEN "copy"
    ELSE IF is_rows_label_key(key) THEN "copy"
    ELSE IF is_exact_dynamic_row_pattern(key) THEN "skip"
    ELSE IF is_content_type_key(key) THEN "copy"
    ELSE "translate"

\* a loop without the "Skip already translated" test
Classify_NoPresent(scr, key, value, translated) ==
    IF scr = "translate" THEN ClassifyTranslate(key, value, <<>>)
    ELSE ClassifyGpt(key, value, <<>>)

\* a loop that sends the copy-verbatim entries to the translation call
Classify_CopyTranslated(scr, key, value, translated) ==
    LET c == IF scr = "translate" THEN ClassifyTranslate(key, value, translated)
             ELSE ClassifyGpt(key, value, translated)
    IN  IF c = "copy" THEN "translate" ELSE c

Classify(scr, key, value, translated) ==
    IF scr = "translate" THEN ClassifyTranslate(key, value, translated)
    ELSE ClassifyGpt(key, value, translated)

\* translate.py 157-165, gpt-translate.py 188-204: the text taken from a
\* response; a raised exception or an empty text is a failure of the entry
TranslatedText(scr, resp) ==
    IF resp.kind = "raise" THEN [raised |-> TRUE, text |-> <<>>]
    ELSE IF resp.kind = "none"
         THEN [raised |-> (scr = "gpt"), text |-> <<>>]
    ELSE IF scr = "translate" /\ resp.text = <<>>
         THEN [raised |-> FALSE, text |-> <<>>]
    ELSE [raised |-> FALSE, text |-> clean_output(Strip(resp.text))]

\* a loop that stops at the first failed entry ("break" for "continue")
AfterFailure_Break(idx) == [pc |-> "idle", i |-> idx]

\* what the loop does after a failed entry: the next index, the loop goes on
AfterFailure(idx) == [pc |-> "loop", i |-> idx + 1]

\* open(translated_path, "w"): the file is truncated before json.dump fills it
OpenForWrite(file) == TornFile

\* a loop that writes the file before it stores the entry
Persist_BeforeStore(translated) ==
    [state |-> "ok", content |-> SubSeq(translated, 1, Len(translated) - 1)]

\* json.dump(translated_content, f) completed and the file closed
Persist(translated) == OkFile(translated)

base_content == base_file.content
base_keys == Keys(base_content)
NumKeys == Len(base_content)
CurEntry == base_content[i + 1]

RunSummary ==
    [ended |-> ended, failed |-> failed, calls |-> calls,
     start |-> start_index, run |-> run]

NoRun == [ended |-> "none", failed |-> {}, calls |-> {}, start |-> 0, run |-> 0]

\* automate.py has not run and data/ is empty
CloneIdle ==
    /\ data_dir = {}
    /\ apc = "idle"
    /\ state_files = <<>>
    /\ clone_idx = 0
    /\ clone_posts = <<>>
    /\ successful_states = <<>>
    /\ failed_states = <<>>

\* no request was answered
NoAnswer == [raised |-> FALSE, status |-> 0]

\* no request was sent to the CMS and the holiday scripts have not run
PushIdle ==
    /\ sent = {}
    /\ page_backup = AbsentFile
    /\ patch_status = 0
    /\ printed = Num
    /\ hpc = "idle"
    /\ holiday_answer = NoAnswer
    /\ updated_file = AbsentFile
    /\ page_content_file = AbsentFile
    /\ CloneIdle

\* update-content.py and get-content.py have not run
PageIdle ==
    /\ cms_page = Num
    /\ suffixed_file = AbsentFile
    /\ env = [translated_json |-> "unset", suffix |-> "th"]
    /\ stage = "fresh"
    /\ upc = "idle"
    /\ data = <<>>
    /\ translations = <<>>
    /\ fetched = Num
    /\ page_data = Num
    /\ tr_index = 0
    /\ updated = 0
    /\ not_found = <<>>
    /\ environ = AllSet
    /\ PushIdle

Init ==
    /\ script \in Scripts
    /\ base_file \in {AbsentFile, [state |-> "corrupt", content |-> <<>>]}
                        \cup {OkFile(m) : m \in Sources}
    /\ translated_file = AbsentFile
    /\ backup_copy = AbsentFile
    /\ pc = "idle"
    /\ translated_content = <<>>
    /\ start_index = 0
    /\ i = 0
    /\ translated_count = 0
    /\ run = 0
    /\ loaded_len = 0
    /\ calls = {}
    /\ failed = {}
    /\ ended = "none"
    /\ prev = NoRun
    /\ PageIdle

\* translate.py 63-119: everything the script does before the loop
StartRun ==
    /\ UNCHANGED pageVars
    /\ pc = "idle"
    /\ run < MaxRuns
    /\ run' = run + 1
    /\ prev' = RunSummary
    /\ calls' = {}
    /\ failed' = {}
    /\ translated_count' = 0
    /\ UNCHANGED <<script, base_file, translated_file>>
    /\ IF base_file.state # "ok"
       THEN /\ ended' = "fatal"
            /\ pc' = "idle"
            /\ translated_content' = <<>>
            /\ loaded_len' = 0
            /\ start_index' = 0
            /\ i' = 0
            /\ UNCHANGED backup_copy
       ELSE LET loaded == LoadTranslated(translated_file)
                cmp == CompareProgress(base_keys, Keys(loaded))
                idx == ResumeIndex(base_keys, Keys(loaded))
            IN  /\ translated_content' = loaded
                /\ loaded_len' = Len(loaded)
                /\ IF cmp = "go"
                   THEN /\ pc' = "loop"
                        /\ ended' = "running"
                        /\ start_index' = idx
                        /\ i' = idx
                        /\ backup_copy' = IF translated_file.state = "absent"
                                          THEN backup_copy ELSE translated_file
                   ELSE /\ pc' = "idle"
                        /\ ended' = cmp
                        /\ start_index' = 0
                        /\ i' = 0
                        /\ UNCHANGED backup_copy

\* "continue" of an entry that is never written this iteration
LoopSkip ==
    /\ UNCHANGED pageVars
    /\ pc = "loop"
    /\ i < NumKeys
    /\ Classify(script, CurEntry.key, CurEntry.value, translated_content)
           \in {"present", "skip"}
    /\ i' = i + 1
    /\ UNCHANGED <<script, base_file, translated_file, backup_copy, pc,
                   translated_content, start_index, translated_count, run,
                   loaded_len, calls, failed, ended, prev>>

\* pass-through copy: store the source value and open the file for writing
LoopCopy ==
    /\ UNCHANGED pageVars
    /\ pc = "loop"
    /\ i < NumKeys
    /\ Classify(script, CurEntry.key, CurEntry.value, translated_content) = "copy"
    /\ translated_content' = Put(translated_content, CurEntry.key, CurEntry.value)
    /\ translated_file' = OpenForWrite(translated_file)
    /\ pc' = "copy_write"
    /\ UNCHANGED <<script, base_file, backup_copy, start_index, i,
                   translated_count, run, loaded_len, calls, failed, ended, prev>>

\* the external translation call is sent
LoopCall ==
    /\ UNCHANGED pageVars
    /\ pc = "loop"
    /\ i < NumKeys
    /\ Classify(script, CurEntry.key, CurEntry.value, translated_content) = "translate"
    /\ calls' = calls \cup {i}
    /\ pc' = "call"
    /\ UNCHANGED <<script, base_file, translated_file, backup_copy,
                   translated_content, start_index, i, translated_count, run,
                   loaded_len, failed, ended, prev>>

\* the call raised or answered nothing usable: the entry is skipped
CallFails ==
    /\ UNCHANGED pageVars
    /\ pc = "call"
    /\ \E resp \in Responses :
          LET got == TranslatedText(script, resp)
          IN  got.raised \/ got.text = <<>>
    /\ failed' = failed \cup {i}
    /\ pc' = AfterFailure(i).pc
    /\ i' = AfterFailure(i).i
    /\ ended' = IF AfterFailure(i).pc = "idle" THEN "complete" ELSE ended
    /\ UNCHANGED <<script, base_file, translated_file, backup_copy,
                   translated_content, start_index, translated_count, run,
                   loaded_len, calls, prev>>

\* the call answered: store the text and open the file for writing
CallSucceeds ==
    /\ UNCHANGED pageVars
    /\ pc = "call"
    /\ \E resp \in Responses :
          LET got == TranslatedText(script, resp)
          IN  /\ ~got.raised
              /\ got.text # <<>>
              /\ translated_content' = Put(translated_content, CurEntry.key, got.text)
    /\ translated_count' = translated_count + 1
    /\ translated_file' = OpenForWrite(translated_file)
    /\ pc' = "save_write"
    /\ UNCHANGED <<script, base_file, backup_copy, start_index, i, run,
                   loaded_len, calls, failed, ended, prev>>

\* json.dump done, file closed, next entry
FileWritten ==
    /\ UNCHANGED pageVars
    /\ pc \in {"copy_write", "save_write"}
    /\ translated_file' = Persist(translated_content)
    /\ pc' = "loop"
    /\ i' = i + 1
    /\ UNCHANGED <<script, base_file, backup_copy, translated_content,
                   start_index, translated_count, run, loaded_len, calls,
                   failed, ended, prev>>

\* the for loop is exhausted: the script prints its summary and exits
LoopEnd ==
    /\ UNCHANGED pageVars
    /\ pc = "loop"
    /\ i >= NumKeys
    /\ pc' = "idle"
    /\ ended' = "complete"
    /\ UNCHANGED <<script, base_file, translated_file, backup_copy,
                   translated_content, start_index, i, translated_count, run,
                   loaded_len, calls, failed, prev>>

\* the process is killed (section 5: no cancellation but process termination)
Kill ==
    /\ UNCHANGED pageVars
    /\ pc # "idle"
    /\ pc' = "idle"
    /\ ended' = "killed"
    /\ UNCHANGED <<script, base_file, translated_file, backup_copy,
                   translated_content, start_index, i, translated_count, run,
                   loaded_len, calls, failed, prev>>

Next ==
    \/ StartRun
    \/ LoopSkip
    \/ LoopCopy
    \/ LoopCall
    \/ CallFails
    \/ CallSucceeds
    \/ FileWritten
    \/ LoopEnd
    \/ Kill

Spec == Init /\ [][Next]_vars

----------------------------------------------------------------------------
(* The page documents the model extracts from and reinjects into *)

LeafValues == {Str(<<"Hello">>), Str(<<" ", "Hi", " ">>), Str(<<" ">>), Num}

LeafKeys ==
    { <<"title">>, <<"Label">>, <<"style_text">>, <<"name">>, <<"description">>,
      <<"a", ".", "title">>, <<"title", ".", "x">> }

InnerKeys == { <<"a">>, <<"items", "[", "x", "]">> }

InnermostDocs ==
    { Dict(<<[key |-> key, value |-> value]>>) : key \in LeafKeys, value \in LeafValues }
    \cup
    { Dict(<<[key |-> <<"title">>, value |-> v1], [key |-> <<"Label">>, value |-> v2]>>) :
          v1 \in {Str(<<"Hello">>), Str(<<" ", "Hi", " ">>)},
          v2 \in {Str(<<"Hello">>), Num} }
    \cup { List(<<Str(<<"Hello">>)>>) }
    \cup
    { Dict(<<[key |-> <<"a", ".", "title">>, value |-> Str(<<"Hello">>)],
             [key |-> <<"a">>,
              value |-> Dict(<<[key |-> <<"title">>, value |-> Str(<<" ", "Hi", " ">>)]>>)]>>) }

\* one more container around a document
Wraps(doc) ==
    { Dict(<<[key |-> key, value |-> doc]>>) : key \in InnerKeys }
        \cup { List(<<doc>>), List(<<Num, doc>>) }

RECURSIVE DocsWrapped(_)
DocsWrapped(n) ==
    IF n = 0 THEN InnermostDocs
    ELSE LET inner == DocsWrapped(n - 1)
         IN  inner \cup UNION { Wraps(doc) : doc \in inner }

Docs == DocsWrapped(MaxWraps)

\* the page with every text emptied (a page of the same shape)
RECURSIVE Blank(_)
Blank(node) ==
    IF node.t = "str" THEN Str(<<>>)
    ELSE IF node.t = "dict"
    THEN Dict([n \in 1..Len(node.v) |->
                  [key |-> node.v[n].key, value |-> Blank(node.v[n].value)]])
    ELSE IF node.t = "list" THEN List([n \in 1..Len(node.v) |-> Blank(node.v[n])])
    ELSE node

\* the page with the last field of every mapping of two or more fields removed
RECURSIVE DropLast(_)
DropLast(node) ==
    IF node.t = "dict"
    THEN LET m == IF Len(node.v) >= 2 THEN Len(node.v) - 1 ELSE Len(node.v)
         IN  Dict([n \in 1..m |->
                      [key |-> node.v[n].key, value |-> DropLast(node.v[n].value)]])
    ELSE IF node.t = "list" THEN List([n \in 1..Len(node.v) |-> DropLast(node.v[n])])
    ELSE node

\* the pages the CMS can serve to update-content.py for a page get-content.py saw
Targets(doc) == {doc, Blank(doc), DropLast(doc)}

----------------------------------------------------------------------------
(* A whole run of the Translation Checkpoint Loop with a translator that    *)
(* answers the upper-cased text                                             *)

UpperTok(tok) ==
    CASE tok = "Hello" -> "HELLO" [] tok = "Hi" -> "HI" [] OTHER -> tok

Upper(text) == [n \in 1..Len(text) |-> UpperTok(text[n])]

RECURSIVE LoopFrom(_, _, _, _)
LoopFrom(scr, base, n, acc) ==
    IF n > Len(base) THEN acc
    ELSE LET what == Classify(scr, base[n].key, base[n].value, acc)
             got == TranslatedText(scr, [kind |-> "text", text |-> Upper(base[n].value)])
         IN  LoopFrom(scr, base, n + 1,
                 IF what = "copy" THEN Put(acc, base[n].key, base[n].value)
                 ELSE IF what = "translate" /\ ~got.raised /\ got.text # <<>>
                 THEN Put(acc, base[n].key, got.text)
                 ELSE acc)

LoopResult(scr, base) == LoopFrom(scr, base, ResumeIndex(Keys(base), <<>>) + 1, <<>>)

----------------------------------------------------------------------------
(* The loop started on a checkpoint that an earlier run left for another    *)
(* source document                                                          *)

\* the entries the earlier source document was made of
StaleEntries ==
    {e \in SourceEntries : e.key \in {kTitle, kContentType, kDndLabel}}

\* the checkpoints translate.py leaves after a run to the end
StaleMappings ==
    { LoopResult("translate", m) :
          m \in {src \in Sources : /\ Len(src) \in {1, 2}
                                   /\ \A n \in 1..Len(src) : src[n] \in StaleEntries} }

StaleInit ==
    /\ script \in Scripts
    /\ base_file \in {OkFile(m) : m \in Sources}
    /\ translated_file \in {OkFile(m) : m \in StaleMappings}
    /\ backup_copy = AbsentFile
    /\ pc = "idle"
    /\ translated_content = <<>>
    /\ start_index = 0
    /\ i = 0
    /\ translated_count = 0
    /\ run = 1
    /\ loaded_len = 0
    /\ calls = {}
    /\ failed = {}
    /\ ended = "complete"
    /\ prev = NoRun
    /\ PageIdle

SpecStale == StaleInit /\ [][Next]_vars

----------------------------------------------------------------------------
(* update-content.py: module body *)

Envs == { [translated_json |-> tj, suffix |-> sfx] :
              tj \in {"unset", "thai"}, sfx \in {"th", "thai"} }

FileNamed(name) ==
    CASE name = "translatable" -> base_file
      [] name = "thai" -> translated_file
      [] OTHER -> suffixed_file

\* update-content.py 16-19
json_path(e) ==
    IF e.translated_json # "unset" THEN e.translated_json
    ELSE IF FileNamed(e.suffix).state # "absent" THEN e.suffix
    ELSE "translatable"

\* suffix = f"_{TARGET_SUFFIX}"
SuffixTok(sfx) == IF sfx = "th" THEN "_th" ELSE "_thai"

RECURSIVE CollectFrom(_, _, _, _)
CollectFrom(m, n, suffix, acc) ==
    IF n > Len(m) THEN acc
    ELSE CollectFrom(m, n + 1, suffix,
             IF EndsWith(m[n].key, <<suffix>>)
             THEN Put(acc, SubSeq(m[n].key, 1, Len(m[n].key) - 1), m[n].value)
             ELSE acc)

\* update-content.py 32-34: {k[:-suffix_len]: v for k, v in data.items() if k.endswith(suffix)}
CollectTranslations(m, sfx) == CollectFrom(m, 1, SuffixTok(sfx), <<>>)

\* a mapping whose keys carry the suffix update-content.py looks for
Suffixed(m, suffix) ==
    [n \in 1..Len(m) |-> [key |-> m[n].key \o <<suffix>>, value |-> m[n].value]]

PageInit ==
    /\ script = "translate"
    /\ base_file = AbsentFile
    /\ translated_file = AbsentFile
    /\ backup_copy = AbsentFile
    /\ pc = "idle"
    /\ translated_content = <<>>
    /\ start_index = 0
    /\ i = 0
    /\ translated_count = 0
    /\ run = 0
    /\ loaded_len = 0
    /\ calls = {}
    /\ failed = {}
    /\ ended = "none"
    /\ prev = NoRun
    /\ cms_page \in Docs
    /\ suffixed_file = AbsentFile
    /\ env = [translated_json |-> "unset", suffix |-> "th"]
    /\ stage = "fresh"
    /\ upc = "idle"
    /\ data = <<>>
    /\ translations = <<>>
    /\ fetched = Num
    /\ page_data = Num
    /\ tr_index = 0
    /\ updated = 0
    /\ not_found = <<>>
    /\ environ = AllSet
    /\ PushIdle

loopFrozen == <<script, backup_copy, pc, translated_content, start_index, i,
                translated_count, run, loaded_len, calls, failed, ended, prev>>

updateVars == <<env, upc, data, translations, fetched, page_data, tr_index,
                updated, not_found>>

\* get-content.py 17-83: fetch the page, extract, save the source mapping
GetContent ==
    /\ stage = "fresh"
    /\ upc = "idle"
    /\ sent' = sent \cup {Request("get-content", "GET", Num)}
    /\ \E status \in GetStatuses(GetContentKey(environ), environ.PAGE_ID) :
          IF status # 200
          THEN UNCHANGED <<base_file, stage>>
          ELSE /\ base_file' = OkFile(Translatable(cms_page))
               /\ stage' = "extracted"
    /\ UNCHANGED <<loopFrozen, translated_file, cms_page, suffixed_file, updateVars>>
    /\ UNCHANGED <<environ, page_backup, patch_status, printed, holidayVars>>

\* translate.py / gpt-translate.py run to the end on the extracted mapping
TranslateAll ==
    /\ UNCHANGED <<pushVars, holidayVars>>
    /\ stage = "extracted"
    /\ upc = "idle"
    /\ \E scr \in Scripts :
          LET m == LoopResult(scr, base_file.content)
          IN  translated_file' = IF m = <<>> THEN translated_file ELSE Persist(m)
    /\ stage' = "translated"
    /\ UNCHANGED <<loopFrozen, base_file, cms_page, suffixed_file, updateVars>>

\* the operator supplies hubspot_translated_th.json with suffixed keys
SupplySuffixed ==
    /\ UNCHANGED <<pushVars, holidayVars>>
    /\ stage = "translated"
    /\ upc = "idle"
    /\ translated_file.state = "ok"
    /\ suffixed_file' = OkFile(Suffixed(translated_file.content, SuffixTok("th")))
    /\ stage' = "suffixed"
    /\ UNCHANGED <<loopFrozen, base_file, translated_file, cms_page, updateVars>>

\* update-content.py 8-36: choose and load the JSON, collect the translations
UpdateStart ==
    /\ UNCHANGED <<pushVars, holidayVars>>
    /\ upc = "idle"
    /\ \E e \in Envs :
          LET file == FileNamed(json_path(e))
          IN  /\ env' = e
              /\ IF file.state = "absent"
                 THEN /\ upc' = "exit"
                      /\ UNCHANGED <<data, translations>>
                 ELSE IF file.state # "ok"
                 THEN /\ upc' = "raised"
                      /\ UNCHANGED <<data, translations>>
                 ELSE /\ upc' = "loaded"
                      /\ data' = file.content
                      /\ translations' = CollectTranslations(file.content, e.suffix)
    /\ UNCHANGED <<loopFrozen, base_file, translated_file, cms_page, suffixed_file,
                   stage, fetched, page_data, tr_index, updated, not_found>>

\* update-content.py 41-51: fetch the page to update; page_data.get('id') of
\* line 51 raises AttributeError on a page that is not a mapping
UpdateFetch ==
    /\ upc = "loaded"
    /\ sent' = sent \cup {Request("update-content", "GET", Num)}
    /\ UNCHANGED <<environ, page_backup, patch_status, printed, holidayVars>>
    /\ \E status \in GetStatuses(UpdateContentKey(environ), environ.PAGE_ID) :
       \E doc \in Targets(cms_page) :
          IF status # 200
          THEN /\ upc' = "exit"
               /\ UNCHANGED <<fetched, page_data>>
          ELSE /\ upc' = IF doc.t = "dict" THEN "applying" ELSE "raised"
               /\ fetched' = doc
               /\ page_data' = doc
    /\ tr_index' = 0
    /\ updated' = 0
    /\ not_found' = <<>>
    /\ UNCHANGED <<loopFrozen, base_file, translated_file, cms_page, suffixed_file,
                   stage, env, data, translations>>

\* update-content.py 85-95: one iteration of "Apply translations"
ApplyOne ==
    /\ UNCHANGED <<pushVars, holidayVars>>
    /\ upc = "applying"
    /\ tr_index < Len(translations)
    /\ LET key == translations[tr_index + 1].key
           translated_text == translations[tr_index + 1].value
           r == update_nested_field(page_data, clean_path(key), Str(translated_text))
       IN  /\ page_data' = r.doc
           /\ upc' = IF r.result = "ValueError" THEN "raised" ELSE "applying"
           /\ updated' = IF r.result = "True" THEN updated + 1 ELSE updated
           /\ not_found' = IF r.result = "False"
                           THEN Append(not_found, clean_path(key)) ELSE not_found
    /\ tr_index' = tr_index + 1
    /\ UNCHANGED <<loopFrozen, base_file, translated_file, cms_page, suffixed_file,
                   stage, env, data, translations, fetched>>

\* update-content.py 97-99: the loop is over, the totals are printed
ApplyDone ==
    /\ UNCHANGED <<pushVars, holidayVars>>
    /\ upc = "applying"
    /\ tr_index = Len(translations)
    /\ upc' = "applied"
    /\ UNCHANGED <<loopFrozen, base_file, translated_file, cms_page, suffixed_file,
                   stage, env, data, translations, fetched, page_data, tr_index,
                   updated, not_found>>

\* update_response.status_code in (200, 204)
IsSuccess_Always(status) == TRUE

IsSuccess(status) == status \in {200, 204}

\* hubspot_translated_{TARGET_SUFFIX}.json of files_to_delete
DeletedName(e) == e.suffix

\* update-content.py 118-161: back the page up, clean the payload, send the
\* PATCH and, on success, delete the translation files
UpdatePush ==
    /\ upc = "applied"
    /\ upc' = "pushed"
    /\ page_backup' = [state |-> "ok", content |-> page_data]
    /\ LET page_data_cleaned == clean_hubspot_payload(json_copy(page_data))
       IN  /\ sent' = sent \cup {Request("update-content", "PATCH", page_data_cleaned)}
           /\ \E status \in PatchStatuses :
                 /\ patch_status' = status
                 /\ IF IsSuccess(status)
                    THEN /\ base_file' = AbsentFile
                         /\ translated_file' = IF DeletedName(env) = "thai"
                                               THEN AbsentFile ELSE translated_file
                         /\ suffixed_file' = IF DeletedName(env) = "th"
                                             THEN AbsentFile ELSE suffixed_file
                         /\ UNCHANGED printed
                    ELSE /\ printed' = page_data_cleaned
                         /\ UNCHANGED <<base_file, translated_file, suffixed_file>>
    /\ UNCHANGED <<loopFrozen, cms_page, stage, env, data, translations, fetched,
                   page_data, tr_index, updated, not_found, environ, holidayVars>>

PageNext ==
    \/ GetContent
    \/ TranslateAll
    \/ SupplySuffixed
    \/ UpdateStart
    \/ UpdateFetch
    \/ ApplyOne
    \/ ApplyDone
    \/ UpdatePush

SpecPage == PageInit /\ [][PageNext]_vars

----------------------------------------------------------------------------
(* holiday-page-scripts/update-content.py and the pages with system fields *)

\* the top-level fields a page of the CMS can carry, in the order it serves them
PageFields ==
    << [key |-> <<"id">>, value |-> Num],
       [key |-> <<"slug">>, value |-> Str(<<"home">>)],
       [key |-> <<"name">>, value |-> Str(<<"Hello">>)],
       [key |-> <<"publishDate">>, value |-> Num],
       [key |-> <<"layoutSections">>,
        value |-> Dict(<<[key |-> <<"title">>, value |-> Str(<<"Hello">>)],
                         [key |-> <<"id">>, value |-> Str(<<"x">>)]>>)] >>

RECURSIVE SubSeqs(_)
SubSeqs(s) ==
    IF s = <<>> THEN {<<>>}
    ELSE LET rest == SubSeqs(Tail(s))
         IN  rest \cup {<<s[1]>> \o r : r \in rest}

PageDocs == {Dict(entries) : entries \in SubSeqs(PageFields)}

\* what requests.patch comes to in update_hubspot_page: a status, or a
\* RequestException
HolidayAnswers ==
    {[raised |-> TRUE, status |-> 0]}
        \cup {[raised |-> FALSE, status |-> st] : st \in {200, 204, 400, 401, 404, 500}}

\* an update_hubspot_page that takes every 2xx status for a success
PatchAccepted_Any2xx(answer) == ~answer.raised /\ answer.status \in {200, 204}

\* holiday-page-scripts/update-content.py 84-95 and 132-134: the return value
\* of update_hubspot_page
PatchAccepted(answer) == ~answer.raised /\ answer.status = 200

\* holiday-page-scripts/update-content.py 174-184
validate_environment(e) == e.HUBSPOT_API_KEY /\ e.PAGE_ID


\* holiday-page-scripts/update-content.py 186-239: main()
HolidayUpdate ==
    /\ hpc = "idle"
    /\ IF ~validate_environment(environ)
       THEN /\ hpc' = "env"
            /\ UNCHANGED <<sent, holiday_answer, updated_file, page_content_file>>
       ELSE IF updated_file.state = "absent"
       THEN /\ hpc' = "nofile"
            /\ UNCHANGED <<sent, holiday_answer, updated_file, page_content_file>>
       ELSE IF updated_file.state # "ok"
       THEN /\ hpc' = "parse"
            /\ UNCHANGED <<sent, holiday_answer, updated_file, page_content_file>>
       ELSE \E order \in IterationOrders : \E answer \in HolidayAnswers :
               LET payload == prepare_update_payload(updated_file.content, order)
               IN  /\ sent' = sent \cup {Request("holiday-update-content", "PATCH", payload)}
                   /\ holiday_answer' = answer
                   /\ IF PatchAccepted(answer)
                      THEN /\ hpc' = "success"
                           /\ updated_file' = [updated_file EXCEPT !.state = "moved"]
                           /\ page_content_file' = AbsentFile
                      ELSE /\ hpc' = "failed"
                           /\ UNCHANGED <<updated_file, page_content_file>>
    /\ UNCHANGED <<loopVars, cms_page, suffixed_file, env, stage, upc, data,
                   translations, fetched, page_data, tr_index, updated, not_found,
                   environ, page_backup, patch_status, printed, cloneVars>>

PushInit ==
    /\ script = "translate"
    /\ base_file = AbsentFile
    /\ translated_file = AbsentFile
    /\ backup_copy = AbsentFile
    /\ pc = "idle"
    /\ translated_content = <<>>
    /\ start_index = 0
    /\ i = 0
    /\ translated_count = 0
    /\ run = 0
    /\ loaded_len = 0
    /\ calls = {}
    /\ failed = {}
    /\ ended = "none"
    /\ prev = NoRun
    /\ cms_page \in PageDocs
    /\ suffixed_file = AbsentFile
    /\ env = [translated_json |-> "unset", suffix |-> "th"]
    /\ stage = "fresh"
    /\ upc = "idle"
    /\ data = <<>>
    /\ translations = <<>>
    /\ fetched = Num
    /\ page_data = Num
    /\ tr_index = 0
    /\ updated = 0
    /\ not_found = <<>>
    /\ environ \in Environs
    /\ sent = {}
    /\ page_backup = AbsentFile
    /\ patch_status = 0
    /\ printed = Num
    /\ hpc = "idle"
    /\ holiday_answer = NoAnswer
    /\ updated_file \in {AbsentFile, [state |-> "corrupt", content |-> <<>>],
                          [state |-> "ok", content |-> cms_page]}
    /\ page_content_file = [state |-> "ok", content |-> cms_page]
    /\ CloneIdle

PushNext ==
    \/ PageNext
    \/ HolidayUpdate

SpecPush == PushInit /\ [][PushNext]_vars

----------------------------------------------------------------------------
(* holiday-page-scripts/automate.py: the clone batch *)

\* the names a file of data/ can have, in the order sorted() puts them
SortedNames ==
    << <<"andhra-pradesh", ".json">>, <<"assam", ".json">>, <<"delhi", ".json">>,
       <<"goa", ".json">>, <<"goa", ".json", ".json">>, <<"notes", ".txt">> >>

NameSet == {SortedNames[n] : n \in 1..Len(SortedNames)}

\* sorted(os.listdir(data_dir))
SortedListing(dir) == SelectSeq(SortedNames, LAMBDA name : name \in dir)

\* a listing that leaves no state file out
get_state_files_All(dir) ==
    SelectSeq(SortedListing(dir), LAMBDA file : Last(file) = ".json")

\* automate.py 23-33
get_state_files(dir) ==
    SelectSeq(SortedListing(dir),
              LAMBDA file : /\ Last(file) = ".json"
                            /\ file \notin {<<"delhi", ".json">>,
                                            <<"andhra-pradesh", ".json">>})

\* automate.py 35-37: filename.replace('.json', '')
get_state_name_from_file(filename) == SelectSeq(filename, LAMBDA tok : tok # ".json")

\* what requests.post comes to in clone_hubspot_page: a RequestException, or a
\* status and a body that holds an id or does not
CloneAnswers ==
    {[raised |-> TRUE, status |-> 0, has_id |-> FALSE]}
        \cup {[raised |-> FALSE, status |-> st, has_id |-> FALSE] :
                  st \in {200, 401, 404, 500}}
        \cup {[raised |-> FALSE, status |-> st, has_id |-> TRUE] : st \in {200, 201}}

\* automate.py 39-78 and 243: clone_hubspot_page returned a page id
Cloned(answer) == ~answer.raised /\ answer.status \in {200, 201} /\ answer.has_id

\* automate.py 203-230: validate, list the state files, empty the two lists
AutomateStart ==
    /\ apc = "idle"
    /\ IF ~(environ.HUBSPOT_API_KEY /\ environ.PAGE_ID)
       THEN /\ apc' = "env"
            /\ UNCHANGED state_files
       ELSE /\ state_files' = get_state_files(data_dir)
            /\ apc' = IF get_state_files(data_dir) = <<>> THEN "nofiles" ELSE "cloning"
    /\ UNCHANGED <<data_dir, clone_idx, clone_posts, successful_states, failed_states>>
    /\ UNCHANGED <<loopVars, cms_page, suffixed_file, env, stage, upc, data,
                   translations, fetched, page_data, tr_index, updated, not_found,
                   pushVars, hpc, holiday_answer, updated_file, page_content_file>>

\* automate.py 232-249: one iteration of the loop over state_files
CloneOne ==
    /\ apc = "cloning"
    /\ clone_idx < Len(state_files)
    /\ LET state_name == get_state_name_from_file(state_files[clone_idx + 1])
       IN  /\ clone_posts' = Append(clone_posts, state_name)
           /\ sent' = sent \cup {Request("automate", "POST", Str(state_name))}
           /\ \E answer \in CloneAnswers :
                 IF Cloned(answer)
                 THEN /\ successful_states' = Append(successful_states, state_name)
                      /\ UNCHANGED failed_states
                 ELSE /\ failed_states' = Append(failed_states, state_name)
                      /\ UNCHANGED successful_states
    /\ clone_idx' = clone_idx + 1
    /\ UNCHANGED <<data_dir, apc, state_files>>
    /\ UNCHANGED <<loopVars, cms_page, suffixed_file, env, stage, upc, data,
                   translations, fetched, page_data, tr_index, updated, not_found,
                   environ, page_backup, patch_status, printed, hpc, holiday_answer,
                   updated_file, page_content_file>>

\* automate.py 251-269: the loop is over, the summary is printed
AutomateEnd ==
    /\ apc = "cloning"
    /\ clone_idx = Len(state_files)
    /\ apc' = "done"
    /\ UNCHANGED <<data_dir, state_files, clone_idx, clone_posts, successful_states,
                   failed_states>>
    /\ UNCHANGED <<loopVars, cms_page, suffixed_file, env, stage, upc, data,
                   translations, fetched, page_data, tr_index, updated, not_found,
                   pushVars, hpc, holiday_answer, updated_file, page_content_file>>

CloneInit ==
    /\ script = "translate"
    /\ base_file = AbsentFile
    /\ translated_file = AbsentFile
    /\ backup_copy = AbsentFile
    /\ pc = "idle"
    /\ translated_content = <<>>
    /\ start_index = 0
    /\ i = 0
    /\ translated_count = 0
    /\ run = 0
    /\ loaded_len = 0
    /\ calls = {}
    /\ failed = {}
    /\ ended = "none"
    /\ prev = NoRun
    /\ cms_page = Num
    /\ suffixed_file = AbsentFile
    /\ env = [translated_json |-> "unset", suffix |-> "th"]
    /\ stage = "fresh"
    /\ upc = "idle"
    /\ data = <<>>
    /\ translations = <<>>
    /\ fetched = Num
    /\ page_data = Num
    /\ tr_index = 0
    /\ updated = 0
    /\ not_found = <<>>
    /\ environ \in Environs
    /\ sent = {}
    /\ page_backup = AbsentFile
    /\ patch_status = 0
    /\ printed = Num
    /\ hpc = "idle"
    /\ holiday_answer = NoAnswer
    /\ updated_file = AbsentFile
    /\ page_content_file = AbsentFile
    /\ data_dir \in SUBSET NameSet
    /\ apc = "idle"
    /\ state_files = <<>>
    /\ clone_idx = 0
    /\ clone_posts = <<>>
    /\ successful_states = <<>>
    /\ failed_states = <<>>

CloneNext ==
    \/ AutomateStart
    \/ CloneOne
    \/ AutomateEnd

SpecClone == CloneInit /\ [][CloneNext]_vars

----------------------------------------------------------------------------
(* Properties of the Translation Checkpoint Loop *)

\* the mapping the latest run loaded from disk
LoadedMapping == SubSeq(translated_content, 1, loaded_len)

\* the latest run got past the progress check and entered the loop
EnteredLoop == ended \in {"running", "complete", "killed"}

\* the latest run and the one before it both ran to their normal end
RanToEnd(e) == e \in {"complete", "already"}

\* the translated mapping a next run would load
OnDisk == LoadTranslated(translated_file)

\* C1's case: the mapping on disk held exactly the first K source keys, 0 < K < N
C1_FirstK ==
    /\ run > 0
    /\ base_file.state = "ok"
    /\ loaded_len > 0
    /\ loaded_len < NumKeys
    /\ Keys(LoadedMapping) = SubSeq(base_keys, 1, loaded_len)

\* C1: when the translated mapping on disk holds exactly the first K of the N
\* source keys in source order (0 < K < N), the run enters the loop at source
\* index K and sends no external call for a source index below K.
C1_ResumeAtK ==
    C1_FirstK =>
        /\ EnteredLoop
        /\ start_index = loaded_len
        /\ i >= loaded_len
        /\ \A j \in calls : j >= loaded_len

C1_Witness ==
    /\ C1_FirstK
    /\ ended = "complete"
    /\ start_index = loaded_len
    /\ calls # {}

\* C2 (as claimed): an entry whose call failed in one run is absent from the
\* translated mapping, and the next run of the loop sends it to the external
\* call again, whatever happened to the other entries of the first run.
C2_FailedRetriedNextRun ==
    (run >= 2 /\ prev.ended = "complete" /\ RanToEnd(ended)) =>
        \A j \in prev.failed :
            /\ ~HasKey(OnDisk, base_keys[j + 1])
            /\ j \in calls

Pending == {j \in 0..(NumKeys - 1) : j >= start_index}

IsCopyVerbatimKey(scr, key) ==
    \/ is_content_type_key(key)
    \/ scr = "gpt" /\ (is_dnd_area_label_key(key) \/ is_rows_label_key(key))

StoredWithSourceValue(m, e) == HasKey(m, e.key) /\ Get(m, e.key) = e.value

StoredBeforeInFlight ==
    {n \in 1..Len(translated_content) :
        ~(i < NumKeys /\ translated_content[n].key = CurEntry.key)}

\* C5 (as claimed): wherever the run is killed, the file the next run loads
\* holds every entry stored before the in-flight entry.
C5_KillLosesAtMostInFlight ==
    ended = "killed" =>
        \A n \in StoredBeforeInFlight :
            /\ n <= Len(OnDisk)
            /\ OnDisk[n] = translated_content[n]

\* C10: an entry whose call failed is not written, the loop goes on with the
\* next entry, and the run ends only when every source index from the resume
\* index on was considered: each was stored, failed, or is one the loop skips.
C10_FailureNeverAborts ==
    /\ \A j \in failed :
          /\ ~HasKey(translated_content, base_content[j + 1].key)
          /\ ~HasKey(OnDisk, base_content[j + 1].key)
          /\ j < i
    /\ ended = "complete" =>
          /\ i = NumKeys
          /\ \A j \in Pending :
                \/ HasKey(translated_content, base_content[j + 1].key)
                \/ j \in failed
                \/ Classify(script, base_content[j + 1].key, base_content[j + 1].value,
                            translated_content) = "skip"

C10_Witness ==
    /\ ended = "complete"
    /\ \E j \in failed : \E k \in calls : k > j /\ k \notin failed

----------------------------------------------------------------------------
(* Properties of the Field Extractor and of Payload Reinjection *)

\* the flat mapping get-content.py saved
F == base_file.content

\* the last dot-separated segment of a path
LastSegment(path) == Last(Split(path, "."))

\* the value Path Addressing reaches in doc for a path of the flat mapping
Resolved(doc, path) == read_nested_field(doc, clean_path(path))

ReachesText(doc, path, text) ==
    /\ Resolved(doc, path).status = "ok"
    /\ Resolved(doc, path).node.t = "str"
    /\ Resolved(doc, path).node.v = text

\* C6 (as claimed): given the translated mapping as the loop stores it,
\* reinjection writes every value at its path (leading "root." stripped) and
\* counts it; {"root.a.title": "HELLO"} into {"a": {"title": ""}} gives
\* {"a": {"title": "HELLO"}} with one field updated.
C6_ReinjectsLoopMapping ==
    (/\ upc = "applied"
     /\ translated_file.state = "ok"
     /\ json_path(env) = "thai"
     /\ data = translated_file.content) =>
        /\ \A n \in 1..Len(data) :
              Resolved(fetched, data[n].key).status = "ok"
                  => ReachesText(page_data, data[n].key, data[n].value)
        /\ updated = Cardinality({n \in 1..Len(data) :
                                    Resolved(fetched, data[n].key).status = "ok"})
        /\ (/\ data = <<[key |-> kTitle, value |-> <<"HELLO">>]>>
            /\ fetched = Dict(<<[key |-> <<"a">>,
                                 value |-> Dict(<<[key |-> <<"title">>,
                                                   value |-> Str(<<>>)]>>)]>>)) =>
               /\ page_data = Dict(<<[key |-> <<"a">>,
                                      value |-> Dict(<<[key |-> <<"title">>,
                                                        value |-> Str(<<"HELLO">>)]>>)]>>)
               /\ updated = 1

\* how a translation's path resolves in the page as it was fetched
StatusInFetched(n) == read_nested_field(fetched, clean_path(translations[n].key)).status

\* C7's case: every path either exists in the fetched page or is absent from
\* its shape (missing key, index out of range, type mismatch), exactly one is absent
C7_ExactlyOneAbsent ==
    /\ upc \in {"applied", "raised"}
    /\ \A n \in 1..Len(translations) :
          StatusInFetched(n) \in {"ok", "KeyError", "IndexError", "TypeError"}
    /\ Cardinality({n \in 1..Len(translations) : StatusInFetched(n) # "ok"}) = 1

\* C7 (as claimed): with exactly one path absent from the target's shape,
\* reinjection writes all the other paths, reports exactly one unresolved
\* path and raises nothing.
C7_OneUnresolvedReported ==
    C7_ExactlyOneAbsent =>
        /\ upc = "applied"
        /\ Len(not_found) = 1
        /\ updated = Len(translations) - 1
        /\ \A n \in 1..Len(translations) :
              StatusInFetched(n) = "ok" =>
                  ReachesText(page_data, clean_path(translations[n].key),
                              translations[n].value)

\* C8 (as claimed): every path of the flat mapping extracted from a document
\* resolves in that document, by Path Addressing, to the value stored for it.
C8_ReadRoundTrip ==
    stage # "fresh" =>
        \A n \in 1..Len(F) : ReachesText(cms_page, F[n].key, F[n].value)

\* C9 (as claimed): every value of the flat mapping is a trimmed, non-empty
\* string, and the last segment of its key contains an inclusion keyword and
\* no exclusion keyword.
C9_TrimmedAndLastSegmentMatches ==
    stage # "fresh" =>
        \A n \in 1..Len(F) :
            /\ F[n].value # <<>>
            /\ Strip(F[n].value) = F[n].value
            /\ MatchesInclusion(LastSegment(F[n].key))
            /\ ~MatchesExclusion(LastSegment(F[n].key))

\* the fields of the mappings of a document that hold no container
RECURSIVE LeafFields(_)
LeafFields(node) ==
    IF node.t = "dict"
    THEN {node.v[n] : n \in {m \in 1..Len(node.v) : ~IsContainer(node.v[m].value)}}
             \cup UNION {LeafFields(node.v[n].value) : n \in 1..Len(node.v)}
    ELSE IF node.t = "list" THEN UNION {LeafFields(node.v[n]) : n \in 1..Len(node.v)}
    ELSE {}

\* C9 (amended): every value of the flat mapping is a string that is not empty
\* once trimmed (it is stored untrimmed), and its path ends with "." and the
\* name of a field of the document that holds this string, a name that
\* contains an inclusion keyword and no exclusion keyword; that name is the
\* last segment of the path when it contains no ".".
C9_NonBlankAndFieldNameMatches ==
    stage # "fresh" =>
        \A n \in 1..Len(F) :
            /\ Strip(F[n].value) # <<>>
            /\ \E field \in LeafFields(cms_page) :
                  /\ field.value.t = "str"
                  /\ field.value.v = F[n].value
                  /\ EndsWith(F[n].key, <<".">> \o field.key)
                  /\ MatchesInclusion(field.key)
                  /\ ~MatchesExclusion(field.key)
                  /\ ~Has(field.key, ".") => LastSegment(F[n].key) = field.key

C9_Witness ==
    /\ stage # "fresh"
    /\ Len(F) = 2
    /\ Strip(F[1].value) # F[1].value
    /\ LastSegment(F[2].key) = <<"Label">>

----------------------------------------------------------------------------
(* Properties of the requests to the CMS *)

\* the script has the credential and the page ID it reads from the environment
Configured(by) ==
    CASE by = "get-content" -> GetContentKey(environ) /\ environ.PAGE_ID
      [] by = "update-content" -> UpdateContentKey(environ) /\ environ.PAGE_ID
      [] OTHER -> environ.HUBSPOT_API_KEY /\ environ.PAGE_ID

\* C11 (as claimed): a script whose credential or page ID is absent from the
\* environment sends no request to the CMS and writes no file.
C11_NoRequestWithoutConfiguration ==
    /\ \A r \in sent : Configured(r.by)
    /\ ~Configured("get-content") => base_file.state = "absent"
    /\ ~Configured("update-content") => page_backup.state = "absent"
    /\ ~Configured("holiday-update-content") => updated_file.state # "moved"

\* the final push of update-content.py was answered with a success status
PushSucceeded == upc = "pushed" /\ patch_status \in {200, 204}

\* C12 (as claimed): after a successful final push the translated-mapping
\* file the loop wrote, hubspot_translated_thai.json, is deleted.
C12_LoopFileDeletedAfterPush ==
    PushSucceeded => translated_file.state = "absent"

\* the PATCH requests update-content.py has sent
PatchesOfUpdateContent ==
    {r \in sent : r.by = "update-content" /\ r.method = "PATCH"}

\* C13: a final PATCH answered with a status other than 200 and 204 leaves the
\* source mapping file and both translated-mapping files as they were and
\* prints the payload that was sent; a step that deletes one of these files
\* is the final push answered with 200 or 204.
C13_RejectionPreservesFiles ==
    [][ /\ (upc = "applied" /\ upc' = "pushed" /\ patch_status' \notin {200, 204}) =>
              /\ UNCHANGED <<base_file, translated_file, suffixed_file>>
              /\ \E r \in sent' : /\ r.by = "update-content"
                                  /\ r.method = "PATCH"
                                  /\ printed' = r.body
        /\ (\/ base_file.state # "absent" /\ base_file'.state = "absent"
            \/ translated_file.state # "absent" /\ translated_file'.state = "absent"
            \/ suffixed_file.state # "absent" /\ suffixed_file'.state = "absent") =>
              /\ upc = "applied" /\ upc' = "pushed"
              /\ patch_status' \in {200, 204} ]_vars

C13_Witness ==
    /\ upc = "pushed"
    /\ patch_status = 400
    /\ base_file.state = "ok"
    /\ translated_file.state = "ok"
    /\ suffixed_file.state = "ok"
    /\ printed.t = "dict"
    /\ updated > 0

\* the allow-list of updatable top-level fields
AllowList ==
    { <<"layoutSections">>, <<"name">>, <<"slug">>, <<"pageTitle">>,
      <<"metaDescription">>, <<"pageExcerpt">>, <<"category">>, <<"subcategory">> }

\* the document a script pushes
Pushed(by) == IF by = "update-content" THEN page_data ELSE updated_file.content

\* C14 (as claimed): every PATCH body holds only top-level fields of the
\* allow-list, each with the value it has in the document being pushed.
C14_PatchBodiesAllowListed ==
    \A r \in sent :
        r.method = "PATCH" =>
            /\ r.body.t = "dict"
            /\ \A n \in 1..Len(r.body.v) :
                  /\ r.body.v[n].key \in AllowList
                  /\ HasKey(Pushed(r.by).v, r.body.v[n].key)
                  /\ Get(Pushed(r.by).v, r.body.v[n].key) = r.body.v[n].value

\* C15: the PATCH body of update-content.py is the reinjected document without
\* its read-only top-level fields: the other top-level fields are all there,
\* in their order and with their whole value (nested fields included), and the
\* document in memory is the one that was backed up before the stripping.
C15_ReadOnlyFieldsStripped ==
    upc = "pushed" =>
        /\ page_backup.content = page_data
        /\ \A r \in PatchesOfUpdateContent :
              IF page_data.t = "dict"
              THEN r.body = Dict(SelectSeq(page_data.v,
                                     LAMBDA e : e.key \notin readonly_fields))
              ELSE r.body = page_data
        /\ PatchesOfUpdateContent # {}

C15_Witness ==
    /\ upc = "pushed"
    /\ updated > 0
    /\ page_data.t = "dict"
    /\ HasKey(page_data.v, <<"id">>)
    /\ HasKey(page_data.v, <<"slug">>)
    /\ HasKey(page_data.v, <<"publishDate">>)
    /\ \E r \in PatchesOfUpdateContent :
          /\ ~HasKey(r.body.v, <<"id">>)
          /\ ~HasKey(r.body.v, <<"slug">>)
          /\ HasKey(r.body.v, <<"publishDate">>)
          /\ HasKey(r.body.v, <<"layoutSections">>)
          /\ HasKey(Get(r.body.v, <<"layoutSections">>).v, <<"id">>)

----------------------------------------------------------------------------
(* More properties of the Translation Checkpoint Loop *)

\* the entries the running script has added to the mapping it loaded
AddedThisRun == SubSeq(translated_content, loaded_len + 1, Len(translated_content))

C17_KeysWithinSource ==
    /\ KeySet(translated_content) \subseteq KeySet(base_content)
    /\ KeySet(translated_file.content) \subseteq KeySet(base_content)

C17_Witness ==
    /\ run >= 2
    /\ pc = "loop"
    /\ loaded_len >= 1
    /\ Len(translated_content) > loaded_len
    /\ translated_file.content = translated_content

\* C18: a step of a running loop leaves every entry of the translated mapping
\* where it is and as it is, adds at most one entry, at the end, for the
\* source entry at hand, which comes later in the source than the entries
\* added before it in this run; a translation call is sent only for a path
\* that is not in the mapping; and a completed write leaves the loaded
\* entries at the head of the file.
C18_AppendOnly ==
    [][ pc # "idle" =>
          /\ Len(translated_content') \in {Len(translated_content),
                                           Len(translated_content) + 1}
          /\ SubSeq(translated_content', 1, Len(translated_content))
                 = translated_content
          /\ translated_content' # translated_content =>
                /\ Last(translated_content').key = CurEntry.key
                /\ \A n \in 1..Len(AddedThisRun) :
                      IndexOf(base_keys, AddedThisRun[n].key) < i + 1
          /\ calls' # calls => ~HasKey(translated_content, CurEntry.key)
          /\ (pc \in {"copy_write", "save_write"} /\ pc' = "loop") =>
                SubSeq(translated_file'.content, 1, loaded_len) = LoadedMapping
      ]_vars

\* a loaded entry was met again by the loop and an entry was added after it
C18_Witness ==
    /\ pc = "loop"
    /\ loaded_len = 2
    /\ Len(AddedThisRun) = 1
    /\ \E n \in (start_index + 1)..i :
          HasKey(LoadedMapping, base_keys[n])
    /\ translated_file.content = translated_content

\* C19 (as claimed): in gpt-translate.py a source key that matches both the
\* exact dynamic-row pattern and the rows-label suffix is skipped and never
\* appears in the translated mapping.
C19_DynamicRowDecidesFirst ==
    script = "gpt" =>
        \A n \in 1..Len(base_content) :
            (/\ is_exact_dynamic_row_pattern(base_content[n].key)
             /\ is_rows_label_key(base_content[n].key)) =>
                /\ ~HasKey(translated_content, base_content[n].key)
                /\ ~HasKey(translated_file.content, base_content[n].key)

----------------------------------------------------------------------------
(* More properties of the Field Extractor *)

\* the path of every collected leaf of a document, in depth-first order
\* (mapping keys in their order, list items by index)
RECURSIVE CollectedPaths(_, _)
CollectedPaths(node, path) ==
    IF node.t = "dict"
    THEN IF node.v = <<>> THEN <<>>
         ELSE LET e == node.v[1]
                  sub == path \o <<".">> \o e.key
              IN  (IF IsContainer(e.value) THEN CollectedPaths(e.value, sub)
                   ELSE IF IsCollected(e.key, e.value) THEN <<sub>> ELSE <<>>)
                      \o CollectedPaths(Dict(Tail(node.v)), path)
    ELSE IF node.t = "list"
    THEN IF node.v = <<>> THEN <<>>
         ELSE LET m == Len(node.v)
              IN  CollectedPaths(List(SubSeq(node.v, 1, m - 1)), path)
                      \o CollectedPaths(node.v[m], path \o <<"[", IntTok(m - 1), "]">>)
    ELSE <<>>

\* C20 (as claimed): the extractor writes no path twice, so the keys of the
\* flat mapping are the paths of the collected leaves, one key for each leaf,
\* in depth-first traversal order.
C20_OnePathForEachLeafInOrder ==
    base_file.state = "ok" => Keys(F) = CollectedPaths(cms_page, <<"root">>)

\* C21 (as claimed): a field whose name is exactly a keyword of the inclusion
\* list and whose value is a string with text left once trimmed is in the
\* flat mapping, under a path that ends with its name, with its value.
C21_KeywordFieldCollected ==
    base_file.state = "ok" =>
        \A field \in LeafFields(cms_page) :
            (/\ Len(field.key) = 1
             /\ field.key[1] \in InclusionKeywords
             /\ field.value.t = "str"
             /\ Strip(field.value.v) # <<>>) =>
                \E n \in 1..Len(F) :
                    /\ EndsWith(F[n].key, <<".">> \o field.key)
                    /\ F[n].value = field.value.v

\* C22 (as claimed): the backup update-content.py writes before its PATCH
\* holds the page as it was fetched from the CMS, no translation applied.
C22_BackupIsFetchedPage ==
    page_backup.state = "ok" => page_backup.content = fetched

----------------------------------------------------------------------------
(* Properties of holiday-page-scripts/update-content.py *)

\* the run of main() happens in this step
HolidayRuns == hpc = "idle" /\ hpc' # "idle"

----------------------------------------------------------------------------
(* Properties of Path Addressing *)

\* the "Apply translations" loop of update-content.py run over the entries of
\* a flat mapping from entry n on; an exception that escapes ends it
RECURSIVE ApplyAll(_, _, _)
ApplyAll(m, n, acc) ==
    IF n > Len(m) \/ acc.raised THEN acc
    ELSE LET r == update_nested_field(acc.doc, clean_path(m[n].key), Str(m[n].value))
         IN  ApplyAll(m, n + 1,
                 [doc |-> r.doc,
                  updated |-> acc.updated + (IF r.result = "True" THEN 1 ELSE 0),
                  not_found |-> acc.not_found + (IF r.result = "False" THEN 1 ELSE 0),
                  raised |-> r.result = "ValueError"])

Reinjected(doc, m) ==
    ApplyAll(m, 1, [doc |-> doc, updated |-> 0, not_found |-> 0, raised |-> FALSE])

\* C24 (as claimed): reinjecting the flat mapping of a document, unchanged,
\* into that document counts every entry as updated, none as not found, and
\* leaves the document as it was.
C24_WriteRoundTrip ==
    base_file.state = "ok" =>
        LET r == Reinjected(cms_page, F)
        IN  /\ ~r.raised
            /\ r.updated = Len(F)
            /\ r.not_found = 0
            /\ r.doc = cms_page

\* C25 (as claimed): update_nested_field answers True or False for every path
\* of the flat mapping of a document, and no path ends the "Apply
\* translations" loop of update-content.py with an exception.
C25_NoExceptionEscapes ==
    /\ base_file.state = "ok" =>
          \A n \in 1..Len(F) :
              update_nested_field(cms_page, clean_path(F[n].key), Str(F[n].value)).result
                  \in {"True", "False"}
    /\ upc = "raised" => tr_index = 0

\* every position of a document that holds a text, a number or an empty
\* container, as <<address, value>>; an address is the sequence of the keys
\* and of the indices (written "[", i, "]") that lead to the position
RECURSIVE Positions(_, _)
Positions(node, addr) ==
    IF IsContainer(node) /\ node.v # <<>>
    THEN UNION { Positions(IF node.t = "dict" THEN node.v[n].value ELSE node.v[n],
                           Append(addr, IF node.t = "dict" THEN node.v[n].key
                                        ELSE <<"[", IntTok(n - 1), "]">>)) :
                     n \in 1..Len(node.v) }
    ELSE {<<addr, node>>}

\* the address is at or below the other
Below(addr, top) == Len(addr) >= Len(top) /\ SubSeq(addr, 1, Len(top)) = top

\* the two documents differ only in that the second holds the text at one
\* address, in place of whatever the first held at or below it
WrittenAtOnePosition(before, after, text) ==
    \E p \in Positions(after, <<>>) :
        /\ p[2] = Str(text)
        /\ p[1] # <<>>
        /\ {q \in Positions(after, <<>>) : q # p}
               = {q \in Positions(before, <<>>) : ~Below(q[1], p[1])}
              \ (IF Len(p[1]) > 1
                 THEN {<<SubSeq(p[1], 1, Len(p[1]) - 1), Dict(<<>>)>>} ELSE {})

\* one iteration of "Apply translations" happens in this step
Applies == upc = "applying" /\ tr_index' = tr_index + 1

\* C26: when update_nested_field returns False the document is as it was;
\* when it returns True the position the path addresses holds the new value
\* and every other position of the document is as it was.
C26_FrameOfWrite ==
    [][ Applies =>
          LET path == clean_path(translations[tr_index + 1].key)
              text == translations[tr_index + 1].value
          IN  /\ not_found' # not_found => page_data' = page_data
              /\ updated' # updated =>
                    /\ WrittenAtOnePosition(page_data, page_data', text)
                    /\ read_nested_field(page_data', path) = Done(Str(text)) ]_vars

\* a text was written where there was another, beside a field that stays
C26_Witness ==
    /\ upc = "applying"
    /\ updated = 1
    /\ page_data # fetched
    /\ fetched.t = "dict"
    /\ Cardinality(Positions(page_data, <<>>)) >= 2
    /\ Cardinality(Positions(page_data, <<>>) \ Positions(fetched, <<>>)) = 1

\* C27 (as claimed): a run of the loop ends normally, at the already-complete
\* check or after the last source entry, whatever source mapping and
\* translated mapping it loads; no exception ends it.
C27_EndsNormally == ended # "IndexError"

\* the state files main() is to clone: the listing of data/ in sorted order,
\* the two excluded files and the files of other kinds left out
C28_StateFiles ==
    SelectSeq(SortedNames,
              LAMBDA name : /\ name \in data_dir
                            /\ name[Len(name)] = ".json"
                            /\ name # <<"delhi", ".json">>
                            /\ name # <<"andhra-pradesh", ".json">>)

\* how many entries of the list are the state name
C28_Count(list, name) == Cardinality({n \in DOMAIN list : list[n] = name})

C28_Names == {get_state_name_from_file(SortedNames[n]) : n \in DOMAIN SortedNames}

====
